---- MODULE Spec2Model ----
(***************************************************************************)
(* yavl: the checker hydrator (as.check), the Status tracker (as.Status)   *)
(* and the logical conjunction combinator (and).                           *)
(*                                                                         *)
(* JavaScript strings are modelled as sequences of one-character strings,  *)
(* so that Array.join and String.startsWith are computed, not assumed.     *)
(* One top-level call of a hydrated method is one action; the recursive    *)
(* walk of the checker tree is the operator Invoke.  The walk keeps a      *)
(* history (the field "log") with one event per hydrated invocation.       *)
(*                                                                         *)
(* Spec:        one call per Status, over every checker built with at most *)
(*              MaxAnds conjunctions.                                      *)
(* SpecSession: one Status kept over up to MaxCalls calls, over the leaves *)
(*              and the conjunctions of two leaves.                        *)
(***************************************************************************)
EXTENDS Integers, Sequences, FiniteSets, TLC

VARIABLES status, variant, checker, calls, last

vars == <<status, variant, checker, calls, last>>

\* ------------------------------------------------------------------ bounds
MaxValue == 2
MaxAnds == 2
MaxCalls == 2

Values == 0..MaxValue
Methods == {"matches", "cast", "validate"}
\* src/index.js names the coercion "coerce"
PlainMethods == {"matches", "coerce", "validate"}

\* ----------------------------------------------------------------- strings
AT == <<" ", "a", "t", " ">>
ANY == <<"a", "n", "y">>
DOT == <<".">>

\* String.prototype.startsWith: does string s start with string p
StartsWith(s, p) ==
  /\ Len(p) <= Len(s)
  /\ \A i \in 1..Len(p) : s[i] = p[i]

\* ---------------------------------------------------------- path segments
\* A path segment is whatever JavaScript value was pushed: a string, a
\* number or null.  "s" is the text Array.join renders it with.
StrSeg(s) == [t |-> "string", s |-> s]
NumSeg(s) == [t |-> "number", s |-> s]
NullSeg == [t |-> "null", s |-> <<>>]

\* JavaScript truthiness of a segment (null, 0 and "" are falsy)
Truthy(seg) ==
  \/ seg.t = "string" /\ seg.s # <<>>
  \/ seg.t = "number" /\ seg.s # <<"0">>

\* _.compact
RECURSIVE Compact(_)
Compact(segs) ==
  IF segs = <<>> THEN <<>>
  ELSE IF Truthy(Head(segs)) THEN <<Head(segs)>> \o Compact(Tail(segs))
       ELSE Compact(Tail(segs))

\* Array.prototype.join('.')
RECURSIVE Join(_)
Join(path) ==
  IF path = <<>> THEN <<>>
  ELSE IF Len(path) = 1 THEN path[1].s
       ELSE path[1].s \o DOT \o Join(Tail(path))

\* ------------------------------------------------------------------ errors
NoErr == [id |-> "none", message |-> <<>>]
ErrMsg == [id |-> "E1", message |-> <<"n", "o">>]
ErrBare == [id |-> "E2", message |-> <<>>]

\* ------------------------------------------------------------------ Status
\* push that reports the segments it was given, not those it kept
PushCountsAll(st, name, extras) ==
  LET path == Compact(extras \o <<name>>)
  IN [st |-> [st EXCEPT !.path = @ \o path], count |-> Len(extras) + 1]

\* as.Status.prototype.push
Push(st, name, extras) ==
  LET path == Compact(extras \o <<name>>)
  IN [st |-> [st EXCEPT !.path = @ \o path], count |-> Len(path)]

\* as.Status.prototype.pop (Array.pop on an empty array does nothing)
Pop(st, count) ==
  LET n == IF count > Len(st.path) THEN 0 ELSE Len(st.path) - count
  IN [st EXCEPT !.path = SubSeq(@, 1, n)]

\* the test left out: every failure is pushed
NoneStartsWith(failures, path) == FALSE

\* the test turned round: path.startsWith(failure)
SomeIsStartOf(failures, path) ==
  \E i \in 1..Len(failures) : StartsWith(path, failures[i])

\* the test that looks for longer entries only
SomeStartsBeyond(failures, path) ==
  \E i \in 1..Len(failures) : StartsWith(failures[i], path) /\ failures[i] # path

\* _.some(this.failures, _.method('startsWith', path))
SomeStartsWith(failures, path) ==
  \E i \in 1..Len(failures) : StartsWith(failures[i], path)

\* weight = _.isUndefined(weight) ? 1 : weight
WeightOf(weight) == IF weight = <<>> THEN 1 ELSE weight[1]

\* succeeded that starts the failures afresh on a success
SucceededAfresh(st, result, weight) ==
  LET w == WeightOf(weight)
      path == Join(st.path)
      st2 == IF result
             THEN [st EXCEPT !.quality = @ + w, !.failures = <<>>]
             ELSE [st EXCEPT !.quality = @ - w,
                             !.failures = IF SomeStartsWith(@, path) THEN @
                                          ELSE Append(@, path)]
  IN [st |-> st2, ret |-> IF path # <<>> THEN path ELSE ANY]

\* as.Status.prototype.succeeded
Succeeded(st, result, weight) ==
  LET w == WeightOf(weight)
      path == Join(st.path)
      st2 == IF result
             THEN [st EXCEPT !.quality = @ + w]
             ELSE [st EXCEPT !.quality = @ - w,
                             !.failures = IF SomeStartsWith(@, path) THEN @
                                          ELSE Append(@, path)]
  IN [st |-> st2, ret |-> IF path # <<>> THEN path ELSE ANY]

\* ---------------------------------------------------------------- checkers
\* Raw leaf checkers handed to as.check: name, weight and the three raw
\* operations, each a table from the value to its outcome.
T == [t |-> "ret", b |-> TRUE, v |-> 0, err |-> NoErr]
F == [t |-> "ret", b |-> FALSE, v |-> 0, err |-> NoErr]
V(v) == [t |-> "ret", b |-> FALSE, v |-> v, err |-> NoErr]
X(e) == [t |-> "throw", b |-> FALSE, v |-> 0, err |-> e]

LeafIds == {"as", "A", "B", "T"}

\* a custom checker hydrated without a name: as.check(raw)
CustomIds == {"U"}

\* "as" is the dispatcher itself, hydrated by as.check(as, null, 0).  The
\* others stand for custom raw checkers handed to as.check:
\*   A  default weight; matches v >= 1; cast lifts 0 to 1; validate throws
\*      an error with a message on 0 and otherwise renumbers the value
\*   B  weight 2; matches v >= 1; cast sends v >= 2 to 0; validate throws
\*      an error without a message on 0
\*   T  weight 1; never matches; every raw operation throws on 0 and on 1
\*   U  no name, default weight; matches v >= 1; cast is the identity;
\*      validate throws an error with a message on 0

\* as.check(as, null): the weight left out
AsCheckerWeighted ==
  [name |-> NullSeg, weight |-> <<>>,
   matches |-> [v \in Values |-> T],
   cast |-> [v \in Values |-> V(v)],
   validate |-> [v \in Values |-> V(v)]]

\* as.matches = _.constant(true); as.cast = as.validate = _.identity;
\* as.check(as, null, 0)
AsChecker ==
  [name |-> NullSeg, weight |-> <<0>>,
   matches |-> [v \in Values |-> T],
   cast |-> [v \in Values |-> V(v)],
   validate |-> [v \in Values |-> V(v)]]

Leaf(id) ==
  CASE id = "as" -> AsChecker
    [] id = "U" ->
         [name |-> NullSeg, weight |-> <<>>,
          matches |-> [v \in Values |-> IF v >= 1 THEN T ELSE F],
          cast |-> [v \in Values |-> V(v)],
          validate |-> [v \in Values |-> IF v = 0 THEN X(ErrMsg) ELSE V(v)]]
    [] id = "A" ->
         [name |-> StrSeg(<<"a">>), weight |-> <<>>,
          matches |-> [v \in Values |-> IF v >= 1 THEN T ELSE F],
          cast |-> [v \in Values |-> IF v = 0 THEN V(1) ELSE V(v)],
          validate |-> [v \in Values |->
                          IF v = 0 THEN X(ErrMsg)
                          ELSE IF v = MaxValue THEN V(1) ELSE V(v + 1)]]
    [] id = "B" ->
         [name |-> StrSeg(<<"a", "b">>), weight |-> <<2>>,
          matches |-> [v \in Values |-> IF v >= 1 THEN T ELSE F],
          cast |-> [v \in Values |-> IF v >= 2 THEN V(0) ELSE V(v)],
          validate |-> [v \in Values |-> IF v = 0 THEN X(ErrBare) ELSE V(v)]]
    [] id = "T" ->
         [name |-> StrSeg(<<"c">>), weight |-> <<1>>,
          matches |-> [v \in Values |->
                         IF v = 0 THEN X(ErrMsg) ELSE IF v = 1 THEN X(ErrBare) ELSE F],
          cast |-> [v \in Values |->
                      IF v = 0 THEN X(ErrBare) ELSE IF v = 1 THEN X(ErrMsg) ELSE V(v)],
          validate |-> [v \in Values |->
                          IF v = 0 THEN X(ErrMsg) ELSE IF v = 1 THEN X(ErrBare) ELSE V(v)]]

LeafC(id) == <<"leaf", id>>
AndC(l, r) == <<"and", l, r>>
IsAnd(c) == c[1] = "and"

\* as.check({...}, null): the weight left out
AndWeightLeftOut == <<>>

\* and.js: as.check({...}, null, 0)
AndName == NullSeg
AndWeight == <<0>>

Name(c) == IF IsAnd(c) THEN AndName ELSE Leaf(c[2]).name
Weight(c) == IF IsAnd(c) THEN AndWeight ELSE Leaf(c[2]).weight

\* the raw operation of a leaf
LeafRaw(id, m, value, st) ==
  LET o == IF m = "matches" THEN Leaf(id).matches[value]
           ELSE IF m \in {"cast", "coerce"} THEN Leaf(id).cast[value]
           ELSE Leaf(id).validate[value]
  IN [st |-> st, t |-> o.t, b |-> o.b, v |-> o.v, err |-> o.err]

\* a new error made from the message, instead of _.set on the caught one
AnnotateCopy(err, where) == [id |-> "copy", message |-> err.message \o AT \o where]

\* err.message + ' at ' + path
Annotate(err, where) == [err EXCEPT !.message = @ \o AT \o where]

RECURSIVE Invoke(_, _, _, _, _, _)

\* right[m](<left's output>, status): left.name not handed on
ThenRightBare(c, m, l, node) ==
  IF l.t = "throw" THEN l
  ELSE Invoke(c[3], m, l.v, l.st, <<>>, node \o <<"R">>)

\* right[m](<left's output>, status, left.name), once left has returned
ThenRight(c, m, l, node) ==
  IF l.t = "throw" THEN l
  ELSE Invoke(c[3], m, l.v, l.st, <<Name(c[2])>>, node \o <<"R">>)

\* left.matches(value, status) && ..., once left.matches has returned
WhenLeftMatches(c, value, l, node) ==
  IF l.t = "throw" \/ ~l.b THEN l
  ELSE ThenRight(c, "matches",
                 Invoke(c[2], "cast", value, l.st, <<>>, node \o <<"L">>), node)

\* and.matches that hands right the raw value
WhenLeftMatchesRaw(c, value, l, node) ==
  IF l.t = "throw" \/ ~l.b THEN l
  ELSE ThenRight(c, "matches", [l EXCEPT !.v = value], node)

AndMatchesRaw(c, value, st, node) ==
  WhenLeftMatchesRaw(c, value,
                     Invoke(c[2], "matches", value, st, <<>>, node \o <<"L">>), node)

\* and.matches that evaluates both sides before combining them
BothSides(l, r) == IF r.t = "throw" THEN r ELSE [r EXCEPT !.b = l.b /\ r.b]

EagerRight(c, value, l, node) ==
  IF l.t = "throw" THEN l
  ELSE BothSides(l, ThenRight(c, "matches",
                              Invoke(c[2], "cast", value, l.st, <<>>, node \o <<"L">>),
                              node))

AndMatchesEager(c, value, st, node) ==
  EagerRight(c, value, Invoke(c[2], "matches", value, st, <<>>, node \o <<"L">>), node)

\* and.matches
AndMatches(c, value, st, node) ==
  WhenLeftMatches(c, value,
                  Invoke(c[2], "matches", value, st, <<>>, node \o <<"L">>), node)

\* and.cast that gives up when left does not match
CastWhenMatched(c, value, lm, node) ==
  IF lm.t = "throw" THEN lm
  ELSE IF ~lm.b THEN [lm EXCEPT !.v = value]
  ELSE ThenRight(c, "cast",
                 Invoke(c[2], "cast", value, lm.st, <<>>, node \o <<"L">>), node)

AndCastFailFast(c, value, st, node) ==
  CastWhenMatched(c, value,
                  Invoke(c[2], "matches", value, st, <<>>, node \o <<"L">>), node)

\* and.cast that sends left's output through right.validate
AndCastViaValidate(c, value, st, node) ==
  ThenRight(c, "validate", Invoke(c[2], "cast", value, st, <<>>, node \o <<"L">>), node)

\* and.cast
AndCast(c, value, st, node) ==
  ThenRight(c, "cast", Invoke(c[2], "cast", value, st, <<>>, node \o <<"L">>), node)

\* and.validate
AndValidate(c, value, st, node) ==
  ThenRight(c, "validate",
            Invoke(c[2], "validate", value, st, <<>>, node \o <<"L">>), node)

\* check[methodName]: the raw operation the wrapper calls
Raw(c, m, value, st, node) ==
  IF IsAnd(c)
  THEN IF m = "matches" THEN AndMatches(c, value, st, node)
       ELSE IF m = "cast" THEN AndCast(c, value, st, node)
       ELSE AndValidate(c, value, st, node)
  ELSE LeafRaw(c[2], m, value, st)

\* the catch clause takes the err.message branch
Annotated(raw) == raw.t = "throw" /\ raw.err.message # <<>>

\* the result of matches forgotten: status.succeeded(true, weight)
SuccessOnReturn(m, raw) == raw.t = "ret"

\* the result passed to status.succeeded: methodName !== 'matches' || result
Success(m, raw) == raw.t = "ret" /\ (m # "matches" \/ raw.b)

\* status.succeeded(...) is called after a normal return, and in the catch
\* clause for an error that has a message
Recorded(raw) == raw.t = "ret" \/ Annotated(raw)

Record(c, m, raw) ==
  IF Recorded(raw)
  THEN Succeeded(raw.st, Success(m, raw), Weight(c))
  ELSE [st |-> raw.st, ret |-> <<>>]

\* the message already names a place
HasAt(msg) == \E i \in 1..Len(msg) : StartsWith(SubSeq(msg, i, Len(msg)), AT)

\* a wrapper that leaves alone an error annotated further down
RethrownOnce(raw, rec) ==
  IF Annotated(raw) /\ ~HasAt(raw.err.message)
  THEN Annotate(raw.err, rec.ret)
  ELSE raw.err

\* what the wrapper throws
Rethrown(raw, rec) == IF Annotated(raw) THEN Annotate(raw.err, rec.ret) ELSE raw.err

\* one entry of the history: what a hydrated invocation saw and did
Event(c, m, value, st, extras, node, pushed, raw, rec, popped, success) ==
  [node |-> node, method |-> m, checker |-> c, value |-> value,
   extras |-> extras, count |-> pushed.count, start |-> Len(st.log),
   pathIn |-> st.path, pathRun |-> pushed.st.path, pathOut |-> popped.path,
   qIn |-> st.quality, qOut |-> popped.quality,
   fPre |-> raw.st.failures, fPost |-> rec.st.failures,
   recorded |-> Recorded(raw),
   success |-> success,
   t |-> raw.t, b |-> raw.b, v |-> raw.v,
   errIn |-> raw.err, err |-> Rethrown(raw, rec)]

\* finally { status.pop(count) }, and the result or the error leaves
Leave(c, m, value, st, extras, node, pushed, raw, rec, popped) ==
  [st |-> [popped EXCEPT !.log =
             Append(@, Event(c, m, value, st, extras, node, pushed, raw, rec,
                             popped, Success(m, raw)))],
   t |-> raw.t, b |-> raw.b, v |-> raw.v, err |-> Rethrown(raw, rec)]

\* try { method(value, status); status.succeeded(...) } catch ...
Settle(c, m, value, st, extras, node, pushed, raw, rec) ==
  Leave(c, m, value, st, extras, node, pushed, raw, rec, Pop(rec.st, pushed.count))

Run(c, m, value, st, extras, node, pushed, raw) ==
  Settle(c, m, value, st, extras, node, pushed, raw, Record(c, m, raw))

Enter(c, m, value, st, extras, node, pushed) ==
  Run(c, m, value, st, extras, node, pushed, Raw(c, m, value, pushed.st, node))

\* as.check / bindStatus: the hydrated method
Invoke(c, m, value, st, extras, node) ==
  Enter(c, m, value, st, extras, node, Push(st, Name(c), extras))

\* src/index.js, the Status without a score: as.Status.prototype.failed
Failed(st) ==
  LET path == Join(st.path)
  IN [st |-> [st EXCEPT !.failures = IF SomeStartsWith(@, path) THEN @
                                     ELSE Append(@, path)],
      ret |-> IF path # <<>> THEN path ELSE ANY]

\* src/index.js: status.failed() is called when matches returned false, and
\* in the catch clause for an error that has a message
RecordedPlain(m, raw) == (raw.t = "ret" /\ m = "matches" /\ ~raw.b) \/ Annotated(raw)

RecordPlain(m, raw) ==
  IF RecordedPlain(m, raw)
  THEN Failed(raw.st)
  ELSE [st |-> raw.st, ret |-> <<>>]

EventPlain(c, m, value, st, extras, node, pushed, raw, rec, popped) ==
  [node |-> node, method |-> m, checker |-> c, value |-> value,
   extras |-> extras, count |-> pushed.count, start |-> Len(st.log),
   pathIn |-> st.path, pathRun |-> pushed.st.path, pathOut |-> popped.path,
   qIn |-> st.quality, qOut |-> popped.quality,
   fPre |-> raw.st.failures, fPost |-> rec.st.failures,
   recorded |-> RecordedPlain(m, raw),
   success |-> FALSE,
   t |-> raw.t, b |-> raw.b, v |-> raw.v,
   errIn |-> raw.err, err |-> Rethrown(raw, rec)]

LeavePlain(c, m, value, st, extras, node, pushed, raw, rec, popped) ==
  [st |-> [popped EXCEPT !.log =
             Append(@, EventPlain(c, m, value, st, extras, node, pushed, raw,
                                  rec, popped))],
   t |-> raw.t, b |-> raw.b, v |-> raw.v, err |-> Rethrown(raw, rec)]

SettlePlain(c, m, value, st, extras, node, pushed, raw, rec) ==
  LeavePlain(c, m, value, st, extras, node, pushed, raw, rec,
             Pop(rec.st, pushed.count))

RunPlain(c, m, value, st, extras, node, pushed, raw) ==
  SettlePlain(c, m, value, st, extras, node, pushed, raw, RecordPlain(m, raw))

EnterPlain(c, m, value, st, extras, node, pushed) ==
  RunPlain(c, m, value, st, extras, node, pushed,
           LeafRaw(c[2], m, value, pushed.st))

\* src/index.js, as.check / bindStatus over a raw leaf checker
InvokePlain(c, m, value, st, extras, node) ==
  EnterPlain(c, m, value, st, extras, node, Push(st, Name(c), extras))

\* ------------------------------------------------------- checker universe
Leaves == {LeafC(id) : id \in LeafIds}

\* the custom checkers, used on their own
Custom == {LeafC(id) : id \in CustomIds}

\* every checker built with at most n uses of .and()
RECURSIVE Trees(_)
Trees(n) ==
  IF n = 0 THEN Leaves
  ELSE Trees(n - 1) \cup
       UNION {{AndC(l, r) : l \in Trees(i), r \in Trees(n - 1 - i)} : i \in 0..(n - 1)}

Checkers == Trees(MaxAnds) \cup Custom

\* A top-level call adds at most one entry to failures whatever the depth of
\* the checker, so a Status that is kept over several calls is exercised
\* with the leaves and the conjunctions of two leaves.
Shallow == Leaves \cup Custom \cup {AndC(l, r) : l \in Leaves, r \in Leaves}

\* the extra key/index arguments of a top-level call: none, "k", 0
Keys == {<<>>, <<StrSeg(<<"k">>)>>, <<NumSeg(<<"0">>)>>}

\* those that change the path
SessionKeys == {<<>>, <<StrSeg(<<"k">>)>>}

\* ------------------------------------------------------------ state machine
NoCall == [active |-> FALSE]

\* new as.Status(), without the history
FreshStatus == [path |-> <<>>, quality |-> 0, failures |-> <<>>]

WithLog(st) ==
  [path |-> st.path, quality |-> st.quality, failures |-> st.failures, log |-> <<>>]

Real(st) == [path |-> st.path, quality |-> st.quality, failures |-> st.failures]

NoChecker == <<"none">>

\* "scoring": the Status and hydrator of src/checks/and.js (with quality);
\* "plain": those of src/index.js (without)
Variants == {"scoring", "plain"}

Init ==
  /\ status = FreshStatus
  /\ variant \in Variants
  /\ checker = NoChecker
  /\ calls = 0
  /\ last = NoCall

\* the schema is interpreted into a checker: as(...) and .and(...)
Build(c) ==
  /\ calls < MaxCalls
  /\ checker = NoChecker
  /\ ~last.active
  /\ variant = "plain" => c \in Leaves \cup Custom
  /\ checker' = c
  /\ UNCHANGED <<status, variant, calls, last>>

\* the same, for a Status that has not been used yet
BuildFirst(c) == calls = 0 /\ Build(c)

\* checker[m](value, status, key...) with a caller-supplied Status
Call(m, value, key) ==
  /\ checker # NoChecker
  /\ variant = "scoring"
  /\ LET r == Invoke(checker, m, value, WithLog(status), key, <<>>)
     IN /\ status' = Real(r.st)
        /\ last' = [active |-> TRUE, checker |-> checker, method |-> m,
                    value |-> value, key |-> key, before |-> status,
                    t |-> r.t, b |-> r.b, v |-> r.v, err |-> r.err,
                    log |-> r.st.log]
  /\ calls' = calls + 1
  /\ checker' = NoChecker
  /\ UNCHANGED variant

\* the same call through the hydrator of src/index.js
CallPlain(m, value, key) ==
  /\ checker # NoChecker
  /\ variant = "plain"
  /\ LET r == InvokePlain(checker, m, value, WithLog(status), key, <<>>)
     IN /\ status' = Real(r.st)
        /\ last' = [active |-> TRUE, checker |-> checker, method |-> m,
                    value |-> value, key |-> key, before |-> status,
                    t |-> r.t, b |-> r.b, v |-> r.v, err |-> r.err,
                    log |-> r.st.log]
  /\ calls' = calls + 1
  /\ checker' = NoChecker
  /\ UNCHANGED variant

\* the caller has inspected the result and keeps the Status
Return ==
  /\ last.active
  /\ last' = NoCall
  /\ UNCHANGED <<status, variant, checker, calls>>

\* the caller drops the Status and makes a new one: new as.Status()
Fresh ==
  /\ ~last.active
  /\ checker = NoChecker
  /\ calls > 0
  /\ status' = FreshStatus
  /\ calls' = 0
  /\ UNCHANGED <<variant, checker, last>>

\* One call per Status, over every checker of the universe.
Next ==
  \/ \E c \in Checkers : BuildFirst(c)
  \/ \E m \in Methods, value \in Values, key \in Keys : Call(m, value, key)
  \/ \E m \in PlainMethods, value \in Values, key \in Keys : CallPlain(m, value, key)
  \/ Return
  \/ Fresh

Spec == Init /\ [][Next]_vars

\* A Status kept over up to MaxCalls calls.
NextSession ==
  \/ \E c \in Shallow : Build(c)
  \/ \E m \in Methods, value \in Values, key \in SessionKeys : Call(m, value, key)
  \/ \E m \in PlainMethods, value \in Values, key \in SessionKeys : CallPlain(m, value, key)
  \/ Return
  \/ Fresh

SpecSession == Init /\ [][NextSession]_vars

\* ------------------------------------------------------------ properties
\* the events of the call that has just returned or thrown
Log == IF last.active THEN last.log ELSE <<>>

\* the invocations made directly by invocation i, in the order they were made
RECURSIVE KidsFrom(_, _)
KidsFrom(i, j) ==
  IF j >= i THEN <<>>
  ELSE IF Len(Log[j].node) = Len(Log[i].node) + 1
       THEN <<j>> \o KidsFrom(i, j + 1)
       ELSE KidsFrom(i, j + 1)

Kids(i) == KidsFrom(i, Log[i].start + 1)

\* the invocations made during invocation i, nested ones included
Inside(i) == (Log[i].start + 1)..(i - 1)

\* a stand-alone call, without a Status: the wrapper allocates one
Alone(c, m, v) == Invoke(c, m, v, WithLog(FreshStatus), <<>>, <<>>)
MatchesOf(c, v) == LET r == Alone(c, "matches", v) IN r.t = "ret" /\ r.b
Returns(c, m, v) == Alone(c, m, v).t = "ret"
CastOf(c, v) == Alone(c, "cast", v).v

RECURSIVE LeafIdsOf(_)
LeafIdsOf(c) == IF IsAnd(c) THEN LeafIdsOf(c[2]) \cup LeafIdsOf(c[3]) ELSE {c[2]}

\* no raw matches or cast of the checker throws, whatever the value
NonThrowing(c) ==
  \A id \in LeafIdsOf(c), v \in Values :
     Leaf(id).matches[v].t = "ret" /\ Leaf(id).cast[v].t = "ret"

\* C1: every hydrated invocation, the top-level one and each nested one,
\* returning or throwing, leaves the path stack as long as it found it.
C1_PathBalance ==
  last.active =>
    /\ Len(status.path) = Len(last.before.path)
    /\ \A i \in 1..Len(Log) : Len(Log[i].pathOut) = Len(Log[i].pathIn)

\* a conjunction two levels down threw with segments pushed over a key
C1_Witness ==
  /\ last.active
  /\ last.t = "throw"
  /\ \E i \in 1..Len(Log) :
       /\ Len(Log[i].node) = 2
       /\ Log[i].t = "throw"
       /\ Log[i].count = 2
       /\ Log[i].pathIn # <<>>

\* C2: without throwing raw operations, a.and(b).matches(v) is true exactly
\* when a.matches(v) is true and b.matches(a.cast(v)) is true.
C2_AndMatchesIff ==
  (last.active /\ variant = "scoring" /\ IsAnd(last.checker)
     /\ last.method = "matches" /\ NonThrowing(last.checker)) =>
    LET a == last.checker[2]
        b == last.checker[3]
    IN /\ last.t = "ret"
       /\ last.b = (MatchesOf(a, last.value) /\ MatchesOf(b, CastOf(a, last.value)))

\* b would accept the raw value but rejects the coerced one
C2_Witness ==
  /\ last.active
  /\ IsAnd(last.checker)
  /\ last.method = "matches"
  /\ NonThrowing(last.checker)
  /\ ~last.b
  /\ MatchesOf(last.checker[2], last.value)
  /\ MatchesOf(last.checker[3], last.value)
  /\ ~MatchesOf(last.checker[3], CastOf(last.checker[2], last.value))

IsMatchesOfAnd(i) == IsAnd(Log[i].checker) /\ Log[i].method = "matches"
Side(j) == Log[j].node[Len(Log[j].node)]

\* C3: in a.and(b).matches(v), when a.matches(v) returns false the conjunction
\* invokes nothing else (neither b.matches nor a.cast), and every invocation of
\* b.matches comes after a.matches returned true.
C3_ShortCircuit ==
  \A i \in 1..Len(Log) :
    IsMatchesOfAnd(i) =>
      LET kids == Kids(i)
      IN /\ Len(kids) >= 1
         /\ Side(kids[1]) = "L" /\ Log[kids[1]].method = "matches"
         /\ (Log[kids[1]].t = "ret" /\ ~Log[kids[1]].b) => Len(kids) = 1
         /\ \A k \in 1..Len(kids) :
              (Side(kids[k]) = "R") =>
                 /\ Log[kids[k]].method = "matches"
                 /\ Log[kids[1]].t = "ret" /\ Log[kids[1]].b

\* a nested conjunction whose left side returned false
C3_Witness ==
  \E i \in 1..Len(Log) :
    /\ IsMatchesOfAnd(i)
    /\ Len(Log[i].node) >= 1
    /\ Log[Kids(i)[1]].t = "ret"
    /\ ~Log[Kids(i)[1]].b
    /\ Len(Kids(i)) = 1

IsCastOfAnd(i) == IsAnd(Log[i].checker) /\ Log[i].method \in {"cast", "validate"}

\* C4: cast and validate of a.and(b), when no raw operation throws, invoke
\* left once and then right once with the same method, right on left's
\* output, and return right's output, whether or not left or right match.
C4_BothInSequence ==
  \A i \in 1..Len(Log) :
    (IsCastOfAnd(i) /\ Log[i].t = "ret") =>
      LET kids == Kids(i)
          a == Log[i].checker[2]
          b == Log[i].checker[3]
          m == Log[i].method
      IN /\ Len(kids) = 2
         /\ Side(kids[1]) = "L" /\ Log[kids[1]].method = m
         /\ Log[kids[1]].value = Log[i].value
         /\ Side(kids[2]) = "R" /\ Log[kids[2]].method = m
         /\ Log[kids[2]].value = Log[kids[1]].v
         /\ Log[i].v = Log[kids[2]].v
         /\ Log[i].v = Alone(b, m, Alone(a, m, Log[i].value).v).v

\* both sides ran although the left one does not match the value and the
\* right one does not match what the left one made of it
C4_Witness ==
  \E i \in 1..Len(Log) :
    /\ IsCastOfAnd(i)
    /\ Log[i].t = "ret"
    /\ Len(Kids(i)) = 2
    /\ Returns(Log[i].checker[2], "matches", Log[i].value)
    /\ ~MatchesOf(Log[i].checker[2], Log[i].value)
    /\ Log[Kids(i)[1]].v # Log[i].value
    /\ Log[i].v # Log[Kids(i)[1]].v

\* p is a leading part of s
IsPrefix(p, s) == Len(p) <= Len(s) /\ SubSeq(s, 1, Len(p)) = p

\* invocation i recorded a failure
FailRecorded(i) == Log[i].recorded /\ ~Log[i].success

\* the joined path at which invocation i records
PathOf(i) == Join(Log[i].pathRun)

\* C5 as stated: a failure at p is left out exactly when some recorded failure
\* is a string-prefix of p, and appended otherwise.
C5_ParentSuppressesChild ==
  \A i \in 1..Len(Log) :
    FailRecorded(i) =>
      Log[i].fPost =
        IF \E k \in 1..Len(Log[i].fPre) : IsPrefix(Log[i].fPre[k], PathOf(i))
        THEN Log[i].fPre
        ELSE Append(Log[i].fPre, PathOf(i))

\* C5 amended: a failure at p is left out exactly when p is a string-prefix
\* of (or equal to) some recorded failure, and appended at the end otherwise.
C5_ChildSuppressesParent ==
  \A i \in 1..Len(Log) :
    FailRecorded(i) =>
      Log[i].fPost =
        IF \E k \in 1..Len(Log[i].fPre) : IsPrefix(PathOf(i), Log[i].fPre[k])
        THEN Log[i].fPre
        ELSE Append(Log[i].fPre, PathOf(i))

\* a failure below an already recorded parent path is recorded as well
C5_Witness ==
  \E i \in 1..Len(Log) :
    /\ FailRecorded(i)
    /\ \E k \in 1..Len(Log[i].fPre) :
         IsPrefix(Log[i].fPre[k], PathOf(i)) /\ Log[i].fPre[k] # PathOf(i)
    /\ Log[i].fPost = Append(Log[i].fPre, PathOf(i))

Failing == {i \in 1..Len(Log) : FailRecorded(i)}
FirstFail == CHOOSE i \in Failing : \A j \in Failing : i <= j

\* C6: once a nested invocation has recorded its failure, the enclosing
\* invocations that fail as the call unwinds add nothing: their paths are
\* leading parts of the recorded one, and a fresh Status ends with the deepest
\* path as its only failure.
C6_DeepestOnly ==
  /\ \A i \in Failing :
       (\E j \in Inside(i) : FailRecorded(j)) =>
          /\ Log[i].fPost = Log[i].fPre
          /\ IsPrefix(PathOf(i), PathOf(FirstFail))
  /\ (last.active /\ last.before.failures = <<>> /\ Failing # {}) =>
       status.failures = <<PathOf(FirstFail)>>

\* a failure two conjunctions down, under a two-segment path, then both
\* enclosing conjunctions failing
C6_Witness ==
  /\ last.active
  /\ Cardinality(Failing) >= 3
  /\ Len(Log[FirstFail].node) = 2
  /\ Len(Log[FirstFail].pathRun) >= 2
  /\ FailRecorded(Len(Log))
  /\ status.failures = <<PathOf(FirstFail)>>

\* C7: a wrapper whose raw operation threw rethrows the same error, its
\* message extended by " at " and the joined path ("any" for the empty path)
\* when it had a message and untouched when it had none; the top-level call
\* then ends by throwing.
C7_Rethrow ==
  \A i \in 1..Len(Log) :
    Log[i].t = "throw" =>
      /\ last.t = "throw"
      /\ i = Len(Log) => last.err = Log[i].err
      /\ IF Log[i].errIn.message # <<>>
         THEN /\ Log[i].err.id = Log[i].errIn.id
              /\ Log[i].err.message =
                   Log[i].errIn.message \o AT \o
                     (IF PathOf(i) = <<>> THEN ANY ELSE PathOf(i))
         ELSE Log[i].err = Log[i].errIn

\* an error already annotated below reaches a wrapper with an empty path
C7_Witness ==
  \E i \in 1..Len(Log) :
    /\ Log[i].t = "throw"
    /\ Log[i].pathRun = <<>>
    /\ Len(Log[i].errIn.message) > Len(ErrMsg.message)
    /\ Log[i].err.message = Log[i].errIn.message \o AT \o ANY

\* the outcome of invocation i as C8 counts it
Signed(i) ==
  LET w == WeightOf(Weight(Log[i].checker))
  IN IF Log[i].t = "ret" /\ (Log[i].method # "matches" \/ Log[i].b) THEN w ELSE 0 - w

RECURSIVE SignedSum(_)
SignedSum(n) == IF n = 0 THEN 0 ELSE SignedSum(n - 1) + Signed(n)

\* C8: after a top-level call on a scoring Status, quality is its value
\* before plus the sum over all invocations of +weight for a success and
\* -weight for a failure (matches returned false or the raw operation threw).
C8_QualityIsSignedSum ==
  (last.active /\ variant = "scoring") =>
    status.quality = last.before.quality + SignedSum(Len(Log))

RECURSIVE KidsDelta(_, _)
KidsDelta(kids, n) ==
  IF n = 0 THEN 0
  ELSE KidsDelta(kids, n - 1) + (Log[kids[n]].qOut - Log[kids[n]].qIn)

\* C9: an invocation of a conjunction changes quality by exactly the sum of
\* the changes of the invocations of its two sides that it makes.
C9_AndAddsNothing ==
  \A i \in 1..Len(Log) :
    IsAnd(Log[i].checker) =>
      Log[i].qOut - Log[i].qIn = KidsDelta(Kids(i), Len(Kids(i)))

\* a failing conjunction whose sides moved the score
C9_Witness ==
  \E i \in 1..Len(Log) :
    /\ IsAnd(Log[i].checker)
    /\ FailRecorded(i)
    /\ Len(Kids(i)) = 3
    /\ Log[i].qOut - Log[i].qIn # 0

Idempotent(c) ==
  \A v \in Values :
    /\ Returns(c, "cast", v)
    /\ Returns(c, "cast", CastOf(c, v))
    /\ CastOf(c, CastOf(c, v)) = CastOf(c, v)

\* every value the checker matches is left unchanged by its coercion
FixesAccepted(c) ==
  \A v \in Values : MatchesOf(c, v) => (Returns(c, "cast", v) /\ CastOf(c, v) = v)

\* the call was a.and(b).cast(v) with v accepted by a.and(b)
CastOfAccepted ==
  /\ last.active
  /\ variant = "scoring"
  /\ IsAnd(last.checker)
  /\ last.method = "cast"
  /\ MatchesOf(last.checker, last.value)

CastAgainIsSame ==
  /\ last.t = "ret"
  /\ Returns(last.checker, "cast", last.v)
  /\ CastOf(last.checker, last.v) = last.v

Located(i) ==
  \/ \E k \in 1..Len(Log[i].fPost) : Log[i].fPost[k] = PathOf(i)
  \/ \E k \in 1..Len(Log[i].fPre) : StartsWith(Log[i].fPre[k], PathOf(i))

\* a matches invocation on a checker whose raw matches and cast never throw
QuietMatches(i) == Log[i].method = "matches" /\ NonThrowing(Log[i].checker)

\* C11: a matches call whose raw operations do not throw returns, and when
\* it returns false the failures are not empty on return and hold an entry
\* for the place of the invocation: its joined path, or a recorded path
\* that suppressed it.
C11_MismatchIsSoft ==
  /\ \A i \in 1..Len(Log) :
       QuietMatches(i) =>
         /\ Log[i].t = "ret"
         /\ ~Log[i].b => (Log[i].fPost # <<>> /\ Located(i))
  /\ (last.active /\ last.method = "matches" /\ NonThrowing(last.checker)) =>
       /\ last.t = "ret"
       /\ ~last.b => (status.failures # <<>>
                      /\ status.failures = Log[Len(Log)].fPost)

\* on a Status that already holds a failure, a conjunction returns false:
\* its right side added an entry, which stands for the conjunction as well
C11_Witness ==
  /\ last.active
  /\ IsAnd(last.checker)
  /\ QuietMatches(Len(Log))
  /\ ~last.b
  /\ last.before.failures # <<>>
  /\ Len(status.failures) = Len(last.before.failures) + 1
  /\ Log[Len(Log)].fPost = Log[Len(Log)].fPre
  /\ Len(Kids(Len(Log))) = 3

\* what invocation i itself added to quality
Own(i) ==
  LET w == WeightOf(Weight(Log[i].checker))
  IN IF ~Log[i].recorded THEN 0 ELSE IF Log[i].success THEN w ELSE 0 - w

\* C12: while a Status lives, failures only grows at its end: every entry
\* stays where it was recorded, through every invocation of a call
\* (short-circuits and throws included); and quality is never set back: an
\* invocation changes it by what its nested invocations and its own
\* recorded outcome add.
C12_AppendOnly ==
  last.active =>
    /\ IsPrefix(last.before.failures, status.failures)
    /\ status.failures = Log[Len(Log)].fPost
    /\ IsPrefix(last.before.failures, Log[1].fPre)
    /\ \A i \in 1..Len(Log) : IsPrefix(Log[i].fPre, Log[i].fPost)
    /\ \A i \in 1..(Len(Log) - 1) : IsPrefix(Log[i].fPost, Log[i + 1].fPre)
    /\ variant = "scoring" =>
         /\ Log[Len(Log)].qIn = last.before.quality
         /\ Log[Len(Log)].qOut = status.quality
         /\ \A i \in 1..Len(Log) :
              Log[i].qOut = Log[i].qIn + KidsDelta(Kids(i), Len(Kids(i))) + Own(i)

\* a Status that holds a failure and a score goes through a conjunction whose
\* left side succeeds and whose right side throws: one entry more
C12_Witness ==
  /\ last.active
  /\ variant = "scoring"
  /\ IsAnd(last.checker)
  /\ last.t = "throw"
  /\ last.before.failures # <<>>
  /\ last.before.quality # 0
  /\ Len(status.failures) = Len(last.before.failures) + 1
  /\ \E i \in 1..Len(Log) : Log[i].recorded /\ Log[i].success

IsDispatcher(i) == Log[i].checker = LeafC("as")

\* C13: as() is the checker that lets everything through: matches is true
\* and cast and validate return the value they were given; an invocation of
\* it records no failure and leaves quality and the path as it found them.
C13_PassThrough ==
  \A i \in 1..Len(Log) :
    IsDispatcher(i) =>
      /\ Log[i].t = "ret"
      /\ Log[i].method = "matches" => Log[i].b
      /\ Log[i].method # "matches" => Log[i].v = Log[i].value
      /\ Log[i].fPost = Log[i].fPre
      /\ Log[i].qOut = Log[i].qIn
      /\ Log[i].pathOut = Log[i].pathIn
      /\ i = Len(Log) =>
           /\ last.t = "ret"
           /\ status = last.before
           /\ last.method = "matches" => last.b
           /\ last.method # "matches" => last.v = last.value

\* as() as the right side of a conjunction, run under the left side's name
\* on a value the left side changed
C13_Witness ==
  \E i \in 1..Len(Log) :
    /\ IsDispatcher(i)
    /\ Len(Log[i].node) >= 1
    /\ Side(i) = "R"
    /\ Log[i].method = "cast"
    /\ Log[i].count = 1
    /\ Log[i].value # last.value
    /\ Log[i].qIn # 0

\* failures after a failure at the path of invocation i has been recorded
WithFailureOf(i) ==
  IF \E k \in 1..Len(Log[i].fPre) : StartsWith(Log[i].fPre[k], PathOf(i))
  THEN Log[i].fPre
  ELSE Append(Log[i].fPre, PathOf(i))

\* C14: whenever the raw operation of an invocation throws, with or without
\* a message on the error, the invocation is recorded as a failure before the
\* error leaves: quality goes down by the weight and the path is recorded
\* in failures unless a recorded failure stands for it.
C14_ThrowIsRecorded ==
  \A i \in 1..Len(Log) :
    Log[i].t = "throw" =>
      /\ Log[i].fPost = WithFailureOf(i)
      /\ variant = "scoring" =>
           Log[i].qOut = Log[i].qIn + KidsDelta(Kids(i), Len(Kids(i)))
                           - WeightOf(Weight(Log[i].checker))

\* invocation i added an entry to failures
Added(i) == FailRecorded(i) /\ Len(Log[i].fPost) = Len(Log[i].fPre) + 1

\* C15: a failure recorded while the path stack is empty is entered in
\* failures as "any", the token the record operation returns for the
\* annotation of error messages, and not as the empty string.
C15_EmptyPathIsAny ==
  \A i \in 1..Len(Log) :
    (Added(i) /\ Log[i].pathRun = <<>>) =>
      Log[i].fPost = Append(Log[i].fPre, ANY)

\* the segment a checker's name makes: none for a checker without a name
NameSegs(c) == IF Name(c) = NullSeg THEN <<>> ELSE <<Name(c)>>

\* the invocation that made invocation j
RECURSIVE ParentFrom(_, _)
ParentFrom(j, i) ==
  IF Log[i].node = SubSeq(Log[j].node, 1, Len(Log[j].node) - 1)
     /\ Log[i].start < j
  THEN i
  ELSE ParentFrom(j, i + 1)

Parent(j) == ParentFrom(j, j + 1)

C17_KeyOnPath ==
  (last.active /\ last.key # <<>>) =>
    LET top == Log[Len(Log)]
        path == top.pathIn \o last.key \o NameSegs(last.checker)
    IN /\ top.pathRun = path
       /\ top.count = Len(top.pathRun) - Len(top.pathIn)
       /\ Added(Len(Log)) => top.fPost[Len(top.fPost)] = Join(path)

NoDuplicate(f) == \A a, b \in 1..Len(f) : f[a] = f[b] => a = b

\* C18: failures never holds the same path twice: a failure at a path that
\* is already there adds nothing, whatever was invoked on the Status before.
C18_NoDuplicates ==
  /\ NoDuplicate(status.failures)
  /\ \A i \in 1..Len(Log) : NoDuplicate(Log[i].fPost)

\* a later call fails at a path an earlier call entered
C18_Witness ==
  /\ last.active
  /\ last.before.failures # <<>>
  /\ status.failures = last.before.failures
  /\ \E i \in 1..Len(Log) :
       /\ FailRecorded(i)
       /\ Log[i].pathRun # <<>>
       /\ \E k \in 1..Len(Log[i].fPre) : Log[i].fPre[k] = PathOf(i)
       /\ \A k \in 1..Len(Log[i].fPre) :
            StartsWith(Log[i].fPre[k], PathOf(i)) => Log[i].fPre[k] = PathOf(i)

\* joined path f is joined path p followed by whole segments
Below(f, p) == f = p \/ p = <<>> \/ StartsWith(f, p \o DOT)

\* one branch: one of the two paths is the other followed by whole segments
SameBranch(f, p) == Below(f, p) \/ Below(p, f)

\* C19: a failure is left out of failures only for a recorded failure of its
\* own branch, one path being the other followed by whole segments; a
\* recorded path that merely begins with the same characters ("ab" for a
\* failure at "a") does not keep it out.
C19_OnlySameBranch ==
  \A i \in 1..Len(Log) :
    (FailRecorded(i) /\ Log[i].fPost = Log[i].fPre) =>
      \E k \in 1..Len(Log[i].fPre) : SameBranch(Log[i].fPre[k], PathOf(i))

Throwing == {i \in 1..Len(Log) : Log[i].t = "throw"}

\* the invocation whose raw operation threw first: the origin of the error
Origin == CHOOSE i \in Throwing : \A j \in Throwing : i <= j

\* the place invocation i names in a message
Where(i) == IF PathOf(i) = <<>> THEN ANY ELSE PathOf(i)

\* the suffixes of the invocations from i on that threw, in the order in
\* which they ended
RECURSIVE Trail(_)
Trail(i) ==
  IF i > Len(Log) THEN <<>>
  ELSE (IF Log[i].t = "throw" THEN AT \o Where(i) ELSE <<>>) \o Trail(i + 1)

\* C20: an error with a message thrown by a raw operation that is nested
\* under k hydrated wrappers reaches the caller with exactly k suffixes
\* " at <path>" after its first message, one for each wrapper it went
\* through, the innermost first and the outermost last; and each of the k
\* wrappers recorded a failure and took its weight off quality.
C20_OneSuffixPerWrapper ==
  (last.active /\ Throwing # {} /\ Log[Origin].errIn.message # <<>>) =>
    /\ last.t = "throw"
    /\ Cardinality(Throwing) = Len(Log[Origin].node) + 1
    /\ \A i \in Throwing :
         /\ IsPrefix(Log[i].node, Log[Origin].node)
         /\ \A j \in Throwing : i < j => Len(Log[j].node) < Len(Log[i].node)
         /\ FailRecorded(i)
         /\ Log[i].fPost = WithFailureOf(i)
         /\ variant = "scoring" =>
              Log[i].qOut = Log[i].qIn + KidsDelta(Kids(i), Len(Kids(i)))
                              - WeightOf(Weight(Log[i].checker))
    /\ last.err.id = Log[Origin].errIn.id
    /\ last.err.message = Log[Origin].errIn.message \o Trail(1)

\* a leaf under two conjunctions and a key threw: three suffixes, for three
\* different paths
C20_Witness ==
  /\ last.active
  /\ Log[Len(Log)].pathRun # <<>>
  /\ Cardinality(Throwing) = 3
  /\ Log[Origin].errIn.message = ErrMsg.message
  /\ Cardinality({PathOf(i) : i \in Throwing}) = 3
  /\ last.err.message = ErrMsg.message \o Trail(1)
  /\ status.quality # last.before.quality

====
